---- MODULE Spec2Model ----
(***************************************************************************)
(* Maximum causal entropy IRL (irl_benchmark): the MDP model builder of    *)
(* utils/utils.py (get_transition_matrix, get_reward_matrix) and the       *)
(* MaxCausalEntIRL class of irl/algorithms/mce_irl.py (sa_visitations,     *)
(* occupancy_measure, train).                                              *)
(*                                                                         *)
(* Numbers that the code holds as floats are exact rationals <<num, den>>  *)
(* here (den > 0, lowest terms), so that sums such as 1/2 + 1/2 = 1 and    *)
(* comparisons against a threshold are decided exactly.                    *)
(***************************************************************************)
EXTENDS Integers, Sequences, FiniteSets, TLC

(* ------------------------------ bounds --------------------------------- *)
\* number of states of the discrete environment (observation_space.n)
NStates == 2
\* number of actions (action_space.n)
NActions == 2

RealStates == 0 .. (NStates - 1)
\* utils.py:57 / :113: one state is appended as the absorbing state
n_states == NStates + 1
Absorbing == n_states - 1
AllStates == 0 .. (n_states - 1)
Actions == 0 .. (NActions - 1)

\* Python's None: no value
None == <<>>

(* ----------------------------- rationals ------------------------------- *)
Abs(x) == IF x < 0 THEN 0 - x ELSE x

\* Euclid's algorithm, as a function so that its arguments are values
gcd[a \in Nat, b \in Nat] == IF b = 0 THEN a ELSE gcd[b, a % b]
GCD(a, b) == gcd[a, b]

Norm(n, d) == LET g == GCD(Abs(n), d) IN <<n \div g, d \div g>>

Zero == <<0, 1>>
One == <<1, 1>>
Half == <<1, 2>>

\* sums and comparisons go through the least common denominator
RAdd(x, y) ==
    LET g == GCD(x[2], y[2])
    IN  Norm(x[1] * (y[2] \div g) + y[1] * (x[2] \div g), (x[2] \div g) * y[2])
RMul(x, y) ==
    LET a == Norm(x[1], y[2])
        b == Norm(y[1], x[2])
    IN  <<a[1] * b[1], a[2] * b[2]>>
RNeg(x) == <<0 - x[1], x[2]>>
RAbs(x) == <<Abs(x[1]), x[2]>>
RSub(x, y) == RAdd(x, RNeg(y))
RLeq(x, y) ==
    LET g == GCD(x[2], y[2]) IN x[1] * (y[2] \div g) <= y[1] * (x[2] \div g)
RLess(x, y) == ~RLeq(y, x)
RMax(x, y) == IF RLeq(x, y) THEN y ELSE x
RInt(n) == <<n, 1>>

\* sum of f[i] over the integer interval lo..hi
RECURSIVE RSum(_, _, _)
RSum(f, lo, hi) == IF lo > hi THEN Zero ELSE RAdd(f[lo], RSum(f, lo + 1, hi))

\* maximum of |f[i]| over lo..hi (np.amax(abs(.)))
RECURSIVE RMaxAbs(_, _, _)
RMaxAbs(f, lo, hi) ==
    IF lo = hi THEN RAbs(f[lo]) ELSE RMax(RAbs(f[lo]), RMaxAbs(f, lo + 1, hi))

(* ------------------------- the environment ----------------------------- *)
\* one (probability, next_state, reward, done) tuple of env.P[state][action]
Outcome(p, ns, r, done) == [p |-> p, ns |-> ns, r |-> r, done |-> done]

VARIABLES
    P,                \* env.P: state -> action -> list of outcomes
    order,            \* the order in which env.P.items() enumerates the states
    reward_function,  \* the reward function of the RewardWrapper, None without one
    firstT, lastT,    \* first and latest result of get_transition_matrix(env)
    firstR, lastR,    \* first and latest result of get_reward_matrix(env)
    expert_trajs,     \* self.expert_trajs: list of {'states': .., 'actions': ..}
    sa_visit_count,   \* first value sa_visitations returns
    P0,               \* second value sa_visitations returns
    transition_matrix,\* self.transition_matrix
    gamma,            \* self.config['gamma']
    lr,               \* self.config['lr']
    policy,           \* occupancy_measure's argument policy
    occ_P0,           \* occupancy_measure's P0 (after the None default)
    t_max,            \* occupancy_measure's argument t_max
    threshold,        \* occupancy_measure's argument threshold
    d_prev, t, diff,  \* occupancy_measure's locals
    sweeps,           \* number of passes through the while body of occupancy_measure
    pc,               \* where the running call stands
    theta,            \* train's theta
    mean_feature_count,      \* train's mean_feature_count
    irl_iteration_counter,   \* train's irl_iteration_counter
    no_irl_iterations        \* train's argument no_irl_iterations

envVars == <<P, order, reward_function, firstT, lastT, firstR, lastR>>
visitVars == <<expert_trajs, sa_visit_count, P0>>
configVars == <<transition_matrix, gamma, lr>>
occVars == <<policy, occ_P0, t_max, threshold, d_prev, t, diff, sweeps>>
trainVars == <<theta, mean_feature_count, irl_iteration_counter, no_irl_iterations>>

vars == <<envVars, visitVars, configVars, occVars, trainVars, pc>>

(* ---------------------- get_transition_matrix -------------------------- *)
\* np.zeros([n_states, n_actions, n_states])
ZeroTable == [s \in AllStates |-> [a \in Actions |-> [s2 \in AllStates |-> Zero]]]

\* table[next_state, :, :] = 0.0 ; table[next_state, :, -1] = 1.0
ToAbsorbingRow == [a \in Actions |-> [s2 \in AllStates |-> IF s2 = Absorbing THEN One ELSE Zero]]

\* the body of the innermost loop, for one outcome of (state, action)
AccumulateOutcome(table, state, action, o) ==
    LET added == [table EXCEPT ![state][action][o.ns] = RAdd(@, o.p)]
    IN  IF o.done THEN [added EXCEPT ![o.ns] = ToAbsorbingRow] ELSE added

\* for probability, next_state, _, done in transitions
RECURSIVE OverTransitions(_, _, _, _, _)
OverTransitions(table, state, action, transitions, i) ==
    IF i > Len(transitions) THEN table
    ELSE OverTransitions(AccumulateOutcome(table, state, action, transitions[i]),
                         state, action, transitions, i + 1)

\* for action, transitions in P_given_state.items()
RECURSIVE OverActions(_, _, _, _)
OverActions(table, state, P_given_state, a) ==
    IF a >= NActions THEN table
    ELSE OverActions(OverTransitions(table, state, a, P_given_state[a], 1),
                     state, P_given_state, a + 1)

\* for state, P_given_state in env.P.items()
RECURSIVE OverStates(_, _, _, _)
OverStates(table, envP, ord, i) ==
    IF i > Len(ord) THEN table
    ELSE OverStates(OverActions(table, ord[i], envP[ord[i]], 0), envP, ord, i + 1)

\* get_transition_matrix(env, with_absorbing_state=True)
get_transition_matrix(envP, ord) ==
    LET table == OverStates(ZeroTable, envP, ord, 1)
    IN  [table EXCEPT ![Absorbing] =
            [a \in Actions |-> [@[a] EXCEPT ![Absorbing] = One]]]

(* ------------------------- get_reward_matrix --------------------------- *)
\* reward_function.reward(reward_input).item(): the wrapper's reward function is
\* evaluated on the input built for next_state
RewardOf(rf, next_state) == rf[next_state]

\* utils.py:90-108: with a RewardWrapper, every outcome's reward is replaced by the
\* reward function's and the result is stored back: discrete_env.P = ...
PFromRewardFunction(envP, rf) ==
    [s \in RealStates |-> [a \in Actions |->
        [i \in 1 .. Len(envP[s][a]) |->
            [envP[s][a][i] EXCEPT !.r = RewardOf(rf, envP[s][a][i].ns)]]]]

\* utils.py:125-126: a single outcome that loops on its own state with done
IsTerminalSelfLoop(state, P_for_state_action) ==
    /\ Len(P_for_state_action) = 1
    /\ P_for_state_action[1].ns = state
    /\ P_for_state_action[1].done = TRUE

\* utils.py:128: rewired_outcome = (1.0, n_states - 1, 0, True)
rewired_outcome == Outcome(One, n_states - 1, 0, TRUE)

\* utils.py:123-129: terminal self-loops are pointed at the absorbing state
Rewire(envP) ==
    [s \in RealStates |-> [a \in Actions |->
        IF IsTerminalSelfLoop(s, envP[s][a]) THEN <<rewired_outcome>> ELSE envP[s][a]]]

\* utils.py:137-174: rewards re-calculated from the reward function; 0 when going to
\* the absorbing state
PBasedOnRewardFunction(correct_P, rf) ==
    [s \in RealStates |-> [a \in Actions |->
        [i \in 1 .. Len(correct_P[s][a]) |->
            LET outcome == correct_P[s][a][i]
            IN  IF outcome.ns = n_states - 1
                THEN [outcome EXCEPT !.r = 0]
                ELSE [outcome EXCEPT !.r = RewardOf(rf, outcome.ns)]]]]

\* rewards[s, a] += r * proba, over the outcomes of (s, a)
RECURSIVE ExpectedReward(_, _)
ExpectedReward(transitions, i) ==
    IF i > Len(transitions) THEN Zero
    ELSE RAdd(RMul(RInt(transitions[i].r), transitions[i].p),
              ExpectedReward(transitions, i + 1))

\* utils.py:176-189: the reward matrix of correct_P, its last row zeroed
RewardsOf(correct_P) ==
    [s \in AllStates |-> [a \in Actions |->
        IF s = Absorbing THEN Zero ELSE ExpectedReward(correct_P[s][a], 1)]]

\* env.P as get_reward_matrix leaves it: correct_P = copy(discrete_env.P) copies the
\* outer dict only, so correct_P[state][action] = [rewired_outcome] writes into the
\* per-state dicts of env.P itself
PAfterRewardMatrix(envP, rf) ==
    Rewire(IF rf = None THEN envP ELSE PFromRewardFunction(envP, rf))

\* the matrix get_reward_matrix(env, with_absorbing_state=True) returns
get_reward_matrix(envP, rf) ==
    LET correct_P == PAfterRewardMatrix(envP, rf)
    IN  RewardsOf(IF rf = None THEN correct_P ELSE PBasedOnRewardFunction(correct_P, rf))

(* ------------------- environments the builder is given ------------------ *)
\* one outcome with probability 1 and the environment's own reward 1
SingleOutcomes ==
    { <<Outcome(One, ns, 1, done)>> : ns \in RealStates, done \in BOOLEAN }

\* two outcomes of probability 1/2 each, to different states, at most one of them done
SplitOutcomes ==
    { <<Outcome(Half, n1, 1, d1), Outcome(Half, n2, 0, d2)>> :
        n1 \in RealStates, n2 \in RealStates, d1 \in BOOLEAN, d2 \in BOOLEAN }

OutcomeLists ==
    SingleOutcomes \cup { l \in SplitOutcomes : l[1].ns # l[2].ns /\ ~(l[1].done /\ l[2].done) }

EnvPs == [RealStates -> [Actions -> OutcomeLists]]

\* the orders in which a dict over the states can enumerate them
Orders == { o \in [1 .. NStates -> RealStates] : \A i, j \in 1 .. NStates : i # j => o[i] # o[j] }

\* reward functions a RewardWrapper may carry (None: no wrapper)
RewardFunctions == { None, [s \in AllStates |-> s + 2] }

InitEnv ==
    /\ P \in EnvPs
    /\ order \in Orders
    /\ reward_function \in RewardFunctions
    /\ firstT = None /\ lastT = None
    /\ firstR = None /\ lastR = None
    /\ expert_trajs = None /\ sa_visit_count = None /\ P0 = None
    /\ transition_matrix = None /\ gamma = None /\ lr = None
    /\ policy = None /\ occ_P0 = None /\ t_max = None /\ threshold = None
    /\ d_prev = None /\ t = 0 /\ diff = None /\ sweeps = 0
    /\ theta = None /\ mean_feature_count = None
    /\ irl_iteration_counter = 0 /\ no_irl_iterations = 0
    /\ pc = "builder"

\* a caller asks for the transition tensor
GetTransitionMatrix ==
    LET T == get_transition_matrix(P, order)
    IN  /\ lastT' = T
        /\ firstT' = IF firstT = None THEN T ELSE firstT
        /\ UNCHANGED <<P, order, reward_function, firstR, lastR>>
        /\ UNCHANGED <<visitVars, configVars, occVars, trainVars, pc>>

\* a caller asks for the reward matrix
GetRewardMatrix ==
    LET R == get_reward_matrix(P, reward_function)
    IN  /\ lastR' = R
        /\ firstR' = IF firstR = None THEN R ELSE firstR
        /\ P' = PAfterRewardMatrix(P, reward_function)
        /\ UNCHANGED <<order, reward_function, firstT, lastT>>
        /\ UNCHANGED <<visitVars, configVars, occVars, trainVars, pc>>

NextEnv == GetTransitionMatrix \/ GetRewardMatrix

SpecEnv == InitEnv /\ [][NextEnv]_vars

(* ------------------- claims about the model builder --------------------- *)
\* the environment's P is as the environment built it: no get_reward_matrix call yet
Pristine == firstR = None

\* n is the next_state of an outcome with done = true
IsTerminal(envP, n) ==
    \E s \in RealStates, a \in Actions :
        \E i \in 1 .. Len(envP[s][a]) : envP[s][a][i].ns = n /\ envP[s][a][i].done

RowSum(T, s, a) == RSum(T[s][a], 0, n_states - 1)

\* C1: the tensor get_transition_matrix returns for an environment whose outcome
\* probabilities sum to 1 per (state, action) has rows summing to 1 for every
\* (s, a), whatever the enumeration order of P, and its absorbing row puts all its
\* mass on the absorbing state under every action.
C1_RowsSumToOne ==
    (lastT # None /\ Pristine) =>
        /\ \A s \in AllStates, a \in Actions : RowSum(lastT, s, a) = One
        /\ lastT[Absorbing] = ToAbsorbingRow

\* C2: in the returned tensor every state that is the next_state of a done outcome
\* maps to the absorbing state with probability 1 under every action and to no
\* other state, whatever P lists from that state and whatever the enumeration order.
C2_TerminalRowsRewired ==
    (lastT # None /\ Pristine) =>
        \A n \in RealStates : IsTerminal(P, n) => lastT[n] = ToAbsorbingRow

\* C3: in the returned reward matrix the absorbing row is 0 and R[s, a] = 0 for
\* every (s, a) that the transition tensor built from the same environment sends to
\* the absorbing state with probability 1.
C3_NoRewardIntoAbsorbing ==
    (lastR # None /\ lastT # None) =>
        /\ \A a \in Actions : lastR[Absorbing][a] = Zero
        /\ \A s \in RealStates, a \in Actions :
              lastT[s][a][Absorbing] = One => lastR[s][a] = Zero

\* C10: get_reward_matrix leaves env.P as it was: every get_transition_matrix call
\* returns the tensor the first call returned, and every get_reward_matrix call the
\* matrix the first call returned.
C10_RewardMatrixLeavesPUnchanged ==
    /\ lastT # None => lastT = firstT
    /\ lastR # None => lastR = firstR

(* ============================ sa_visitations ============================ *)
\* longest action sequence of an expert trajectory
MaxTrajLen == 2
\* largest number of expert trajectories
MaxTrajs == 2

\* states[timestep + 1] instead of states[timestep]: the state reached, not the one left
NextVisitedState(traj, timestep) == traj.states[timestep + 2]

\* state = traj['states'][timestep] (sequences here start at 1)
VisitedState(traj, timestep) == traj.states[timestep + 1]

\* action = traj['actions'][timestep]
TakenAction(traj, timestep) == traj.actions[timestep + 1]

\* for timestep in range(len(traj['actions'])): sa_visit_count[state, action] += 1
RECURSIVE OverTimesteps(_, _, _)
OverTimesteps(count, traj, timestep) ==
    IF timestep >= Len(traj.actions) THEN count
    ELSE OverTimesteps(
            [count EXCEPT ![VisitedState(traj, timestep)][TakenAction(traj, timestep)] = @ + 1],
            traj, timestep + 1)

\* for traj in self.expert_trajs: s0_count[traj['states'][0]] += 1 and the inner loop
RECURSIVE OverTrajs(_, _, _)
OverTrajs(acc, trajs, i) ==
    IF i > Len(trajs) THEN acc
    ELSE OverTrajs(
            [s0_count |-> [acc.s0_count EXCEPT ![trajs[i].states[1]] = @ + 1],
             sa_visit_count |-> OverTimesteps(acc.sa_visit_count, trajs[i], 0)],
            trajs, i + 1)

\* sa_visitations(self): [sa_visit_count, P0], P0 = s0_count / len(self.expert_trajs)
sa_visitations(trajs) ==
    LET zero == [s0_count |-> [s \in AllStates |-> 0],
                 sa_visit_count |-> [s \in AllStates |-> [a \in Actions |-> 0]]]
        counted == OverTrajs(zero, trajs, 1)
    IN  [sa_visit_count |-> counted.sa_visit_count,
         P0 |-> [s \in AllStates |-> Norm(counted.s0_count[s], Len(trajs))]]

\* expert trajectories: a walk up the state indices under one action, or a stay in
\* one state under the actions in turn; len actions and len + 1 states
WalkTraj(s0, len, a0) ==
    [states |-> [i \in 1 .. (len + 1) |-> (s0 + i - 1) % n_states],
     actions |-> [i \in 1 .. len |-> a0]]

StayTraj(s0, len, a0) ==
    [states |-> [i \in 1 .. (len + 1) |-> s0],
     actions |-> [i \in 1 .. len |-> (a0 + i - 1) % NActions]]

Trajectories ==
    { WalkTraj(s0, len, a0) : s0 \in AllStates, len \in 0 .. MaxTrajLen, a0 \in Actions }
    \cup { StayTraj(s0, len, a0) : s0 \in AllStates, len \in 0 .. MaxTrajLen, a0 \in Actions }

\* the non-empty datasets of at most MaxTrajs trajectories
Datasets == UNION { [1 .. k -> Trajectories] : k \in 1 .. MaxTrajs }

InitVisit ==
    /\ expert_trajs \in Datasets
    /\ sa_visit_count = None /\ P0 = None
    /\ P = None /\ order = None /\ reward_function = None
    /\ firstT = None /\ lastT = None /\ firstR = None /\ lastR = None
    /\ transition_matrix = None /\ gamma = None /\ lr = None
    /\ policy = None /\ occ_P0 = None /\ t_max = None /\ threshold = None
    /\ d_prev = None /\ t = 0 /\ diff = None /\ sweeps = 0
    /\ theta = None /\ mean_feature_count = None
    /\ irl_iteration_counter = 0 /\ no_irl_iterations = 0
    /\ pc = "visit"

\* a call of sa_visitations
SaVisitations ==
    /\ pc = "visit"
    /\ sa_visit_count' = sa_visitations(expert_trajs).sa_visit_count
    /\ P0' = sa_visitations(expert_trajs).P0
    /\ pc' = "visited"
    /\ UNCHANGED <<expert_trajs, envVars, configVars, occVars, trainVars>>

NextVisit == SaVisitations

SpecVisit == InitVisit /\ [][NextVisit]_vars

(* ----------------------- claims about sa_visitations -------------------- *)
\* the (trajectory, timestep) pairs at which s is left by a
VisitsOf(trajs, s, a) ==
    { it \in (1 .. Len(trajs)) \X (1 .. MaxTrajLen) :
        /\ it[2] <= Len(trajs[it[1]].actions)
        /\ trajs[it[1]].states[it[2]] = s
        /\ trajs[it[1]].actions[it[2]] = a }

StartsIn(trajs, s) == { i \in 1 .. Len(trajs) : trajs[i].states[1] = s }

RECURSIVE TotalLength(_, _)
TotalLength(trajs, i) ==
    IF i > Len(trajs) THEN 0 ELSE Len(trajs[i].actions) + TotalLength(trajs, i + 1)

RECURSIVE IntSum(_, _, _)
IntSum(f, lo, hi) == IF lo > hi THEN 0 ELSE f[lo] + IntSum(f, lo + 1, hi)

TotalVisits(count) ==
    IntSum([s \in AllStates |-> IntSum(count[s], 0, NActions - 1)], 0, n_states - 1)

ChainExample == << [states |-> <<0, 1, 2>>, actions |-> <<0, 0>>] >>

\* C4: for a non-empty dataset of k trajectories, visit_counts[s, a] is the number
\* of (trajectory, timestep < len(actions)) pairs with states[t] = s and
\* actions[t] = a, P0[s] is the share of trajectories starting in s, sum(P0) = 1 and
\* sum(visit_counts) is the sum of the trajectories' numbers of actions; for the one
\* trajectory states=[0,1,2], actions=[0,0]: P0 = [1,0,0], visit_counts[0,0] =
\* visit_counts[1,0] = 1 and every other entry 0.
C4_VisitationCounts ==
    pc = "visited" =>
        /\ \A s \in AllStates, a \in Actions :
              sa_visit_count[s][a] = Cardinality(VisitsOf(expert_trajs, s, a))
        /\ \A s \in AllStates :
              P0[s] = Norm(Cardinality(StartsIn(expert_trajs, s)), Len(expert_trajs))
        /\ RSum(P0, 0, n_states - 1) = One
        /\ TotalVisits(sa_visit_count) = TotalLength(expert_trajs, 1)
        /\ expert_trajs = ChainExample =>
              /\ P0 = [s \in AllStates |-> IF s = 0 THEN One ELSE Zero]
              /\ sa_visit_count =
                    [s \in AllStates |-> [a \in Actions |->
                        IF s \in {0, 1} /\ a = 0 THEN 1 ELSE 0]]

\* two trajectories, a state-action pair counted twice, two different start states
C4_Witness ==
    /\ pc = "visited"
    /\ Len(expert_trajs) = 2
    /\ \E s \in AllStates, a \in Actions : sa_visit_count[s][a] >= 2
    /\ \E s \in AllStates : P0[s] = Half

(* =========================== occupancy_measure ========================== *)
\* float("inf")
Inf == <<1, 0>>

\* the while test: diff > threshold
Exceeds(x, thr) == x = Inf \/ RLess(thr, x)

\* the contribution without the discount factor
UndiscountedContribution(g, dp, pl, prob) == RMul(RMul(dp, pl), prob)

\* self.config['gamma'] * d_prev[state] * policy[state, action] * prob
Contribution(g, dp, pl, prob) == RMul(RMul(RMul(g, dp), pl), prob)

\* one pass of the while body: d = np.copy(P0), then d[next_state] += ... over state,
\* action and next_state
SweepOf(p0, dprev, pol, T, g) ==
    [next_state \in AllStates |->
        RAdd(p0[next_state],
             RSum([state \in AllStates |->
                    RSum([action \in Actions |->
                            Contribution(g, dprev[state], pol[state][action],
                                         T[state][action][next_state])],
                         0, NActions - 1)],
                  0, n_states - 1))]

\* diff = np.amax(abs(d_prev - d))
DiffOf(dprev, d) == RMaxAbs([s \in AllStates |-> RSub(dprev[s], d[s])], 0, n_states - 1)

\* P0 = np.ones(self.n_states) / self.n_states
DefaultP0 == [s \in AllStates |-> <<1, n_states>>]

\* entry of occupancy_measure, up to the while loop
EnterOccupancy(pol, p0, tmax, thr) ==
    /\ policy' = pol
    /\ occ_P0' = IF p0 = None THEN DefaultP0 ELSE p0
    /\ t_max' = tmax
    /\ threshold' = thr
    /\ d_prev' = [s \in AllStates |-> Zero]
    /\ t' = 0
    /\ diff' = Inf
    /\ sweeps' = 0

\* one iteration of `while diff > threshold`, with the t_max break at its end
Sweep ==
    /\ pc = "loop"
    /\ Exceeds(diff, threshold)
    /\ LET d == SweepOf(occ_P0, d_prev, policy, transition_matrix, gamma)
       IN  /\ diff' = DiffOf(d_prev, d)
           /\ d_prev' = d
    /\ IF t_max # None
       THEN /\ t' = t + 1
            /\ pc' = IF t + 1 = t_max[1] THEN "break" ELSE "loop"
       ELSE /\ t' = t
            /\ pc' = "loop"
    /\ sweeps' = sweeps + 1
    /\ UNCHANGED <<policy, occ_P0, t_max, threshold>>
    /\ UNCHANGED <<envVars, visitVars, configVars, trainVars>>

\* the loop is left: by its test or by the break
LoopLeft == pc = "break" \/ (pc = "loop" /\ ~Exceeds(diff, threshold))

(* ---------------- direct calls of occupancy_measure --------------------- *)
\* passes through the loop body that the model follows in a direct call
MaxSweeps == 6
\* largest iteration cap t_max passed
MaxCap == 2

\* a gym-style environment: action a moves from s to NextOf(s, a); reaching goal ends
\* the episode; the goal state itself loops with done (self_loop) or moves on like
\* any other state; with slip, half the mass stays where it is
NextOf(s, a) == (s + 1 + a * (NStates - 1)) % NStates

ChainP(goal, self_loop, slip) ==
    [s \in RealStates |-> [a \in Actions |->
        IF s = goal /\ self_loop THEN <<Outcome(One, s, 0, TRUE)>>
        ELSE IF slip
             THEN <<Outcome(Half, NextOf(s, a), 1, NextOf(s, a) = goal),
                    Outcome(Half, s, 0, FALSE)>>
             ELSE <<Outcome(One, NextOf(s, a), 1, NextOf(s, a) = goal)>>]]

\* goal = NStates: no state ends the episode
ChainPs ==
    { ChainP(goal, self_loop, slip) :
        goal \in 0 .. NStates, self_loop \in BOOLEAN, slip \in BOOLEAN }

AscendingOrder == [i \in 1 .. NStates |-> i - 1]

\* values of config['gamma'] within its domain [0.0, 1.0]
Gammas == {Zero, Half, One}

ConstPolicy(a) == [s \in AllStates |-> [b \in Actions |-> IF b = a THEN One ELSE Zero]]
UniformPolicy == [s \in AllStates |-> [b \in Actions |-> <<1, NActions>>]]
CyclePolicy == [s \in AllStates |-> [b \in Actions |-> IF b = s % NActions THEN One ELSE Zero]]
DeterministicPolicies == { ConstPolicy(a) : a \in Actions } \cup {CyclePolicy}
Policies == DeterministicPolicies \cup {UniformPolicy}

PointMass(s0) == [s \in AllStates |-> IF s = s0 THEN One ELSE Zero]
UniformOverReal == [s \in AllStates |-> IF s \in RealStates THEN <<1, NStates>> ELSE Zero]
P0Args == {None, UniformOverReal} \cup { PointMass(s0) : s0 \in RealStates }

Caps == {None} \cup { <<n>> : n \in 0 .. MaxCap }
Thresholds == { <<1, 2>>, <<1, 8>> }

\* a MaxCausalEntIRL object after __init__: self.transition_matrix =
\* get_transition_matrix(self.env). mce_irl.py imports the builder by the module
\* name utils.wrapper_utils; the get_transition_matrix among the sources is the one
\* of utils/utils.py, and it is the one used here. The environments are enumerated
\* in ascending order of their states, as gym's DiscreteEnv fills P.
InitOcc ==
    /\ P \in ChainPs
    /\ order = AscendingOrder
    /\ reward_function = None
    /\ firstT = None /\ lastT = None /\ firstR = None /\ lastR = None
    /\ expert_trajs = None /\ sa_visit_count = None /\ P0 = None
    /\ transition_matrix = get_transition_matrix(P, order)
    /\ gamma \in Gammas
    /\ lr = None
    /\ policy = None /\ occ_P0 = None /\ t_max = None /\ threshold = None
    /\ d_prev = None /\ t = 0 /\ diff = None /\ sweeps = 0
    /\ theta = None /\ mean_feature_count = None
    /\ irl_iteration_counter = 0 /\ no_irl_iterations = 0
    /\ pc = "idle"

\* occupancy_measure(policy, P0, t_max, threshold) is called
OccupancyCall ==
    /\ pc = "idle"
    /\ \E pol \in Policies, p0 \in P0Args, tmax \in Caps, thr \in Thresholds :
          EnterOccupancy(pol, p0, tmax, thr)
    /\ pc' = "loop"
    /\ UNCHANGED <<envVars, visitVars, configVars, trainVars>>

OccupancySweep == sweeps < MaxSweeps /\ Sweep

\* return d_prev
OccupancyReturn ==
    /\ LoopLeft
    /\ pc' = "returned"
    /\ UNCHANGED <<envVars, visitVars, configVars, occVars, trainVars>>

NextOcc == OccupancyCall \/ OccupancySweep \/ OccupancyReturn

SpecOcc == InitOcc /\ [][NextOcc]_vars

(* --------------------- claims about occupancy_measure ------------------- *)
InOccupancy == pc \in {"loop", "break", "returned"}

RowsSumToOne(T) == \A s \in AllStates, a \in Actions : RowSum(T, s, a) = One

\* every row of the policy is a probability distribution
IsStochastic(pol) ==
    \A s \in AllStates :
        /\ \A a \in Actions : RLeq(Zero, pol[s][a])
        /\ RSum(pol[s], 0, NActions - 1) = One

TotalOf(d) == RSum(d, 0, n_states - 1)

\* C6: with an iteration cap t_max supplied, 0 included, the loop ends after at most
\* t_max passes whatever the diff, and the estimate of the last pass is returned.
C6_CapBoundsSweeps ==
    (InOccupancy /\ t_max # None) => sweeps <= t_max[1]

\* C7: called with max_iters = 0 or max_iters = 1, occupancy_measure returns d equal
\* to P0 exactly.
C7_CapZeroOrOneReturnsP0 ==
    (pc = "returned" /\ t_max \in {<<0>>, <<1>>}) => d_prev = occ_P0

\* the flow into next_state, state by state: d_prev[s] * sum_a policy[s,a] * T[s,a,s']
FlowInto(next_state) ==
    RSum([s \in AllStates |->
            RMul(d_prev[s],
                 RSum([a \in Actions |-> RMul(policy[s][a], transition_matrix[s][a][next_state])],
                      0, NActions - 1))],
         0, n_states - 1)

\* C8: for gamma < 1, a stochastic policy, a transition tensor whose rows sum to 1
\* and P0 summing to 1, the estimate d after every pass (hence the returned one,
\* with or without a cap) has sum(d) <= 1/(1-gamma), each pass computing
\* d_new[s'] = P0[s'] + gamma * sum_s sum_a d_prev[s] * policy[s,a] * T[s,a,s'].
C8_OccupancyBounded ==
    /\ [](( /\ InOccupancy
            /\ RLess(gamma, One)
            /\ IsStochastic(policy)
            /\ RowsSumToOne(transition_matrix)
            /\ TotalOf(occ_P0) = One )
          => RLeq(RMul(TotalOf(d_prev), RSub(One, gamma)), One))
    /\ [][(pc = "loop" /\ sweeps' = sweeps + 1) =>
            \A s2 \in AllStates :
                d_prev'[s2] = RAdd(occ_P0[s2], RMul(gamma, FlowInto(s2)))]_vars

\* gamma = 1/2, three passes or more, and sum(d) above 3/2 of the bound 2
C8_Witness ==
    /\ pc = "returned"
    /\ gamma = Half
    /\ RowsSumToOne(transition_matrix)
    /\ policy = UniformPolicy
    /\ sweeps >= 3
    /\ RLess(<<3, 2>>, TotalOf(d_prev))

(* ================================= train ================================ *)
\* largest no_irl_iterations passed to train
MaxIters == 2
\* passes through the loop body of occupancy_measure that the model follows inside
\* train
MaxTrainSweeps == 24

\* occupancy_measure's default threshold=1e-6, which train leaves in place
threshold_default == <<1, 1000000>>

\* self.feat_map = np.eye(self.n_states)
feat_map == [s \in AllStates |-> [f \in AllStates |-> IF s = f THEN One ELSE Zero]]

\* np.dot(self.feat_map.T, v)
FeatDot(v) ==
    [f \in AllStates |-> RSum([s \in AllStates |-> RMul(feat_map[s][f], v[s])], 0, n_states - 1)]

\* np.sum(sa_visit_count, 1) / len(self.expert_trajs)
mean_s_visit_count(count, k) ==
    [s \in AllStates |-> Norm(IntSum(count[s], 0, NActions - 1), k)]

\* the gradient with its sign lost: mean_feature_count - np.dot(self.feat_map.T, d)
AscentDirection(mfc, d) == [f \in AllStates |-> RSub(mfc[f], FeatDot(d)[f])]

\* dl_dtheta = -(mean_feature_count - np.dot(self.feat_map.T, d))
dl_dtheta(mfc, d) == [f \in AllStates |-> RNeg(RSub(mfc[f], FeatDot(d)[f]))]

\* theta -= self.config['lr'] * dl_dtheta[:-1]
UpdatedTheta(th, rate, grad) ==
    [f \in 0 .. (n_states - 2) |-> RSub(th[f], RMul(rate, grad[f]))]

\* expert trajectories of a run of train: walks over the environment's own states
RealWalk(s0, len, a0) ==
    [states |-> [i \in 1 .. (len + 1) |-> (s0 + i - 1) % NStates],
     actions |-> [i \in 1 .. len |-> a0]]

TrainDatasets ==
    { <<RealWalk(s0, MaxTrajLen, 0)>> : s0 \in RealStates }
    \cup { <<RealWalk(0, MaxTrajLen, 0), RealWalk(NStates - 1, 1, 0)>> }

\* environments of a run of train: gym-style, without slip
TrainPs == { ChainP(goal, TRUE, FALSE) : goal \in 0 .. NStates }

\* values of config['lr'] within its domain [0.000001, 50]
LearningRates == { <<1, 50>>, <<2, 1>> }

\* FeatureBasedRewardFunction(self.env, 'random').parameters
InitialTheta == [f \in 0 .. (n_states - 2) |-> <<f + 1, 2>>]

\* policies agent.policy_array() may return
SolverPolicies == DeterministicPolicies

InitTrain ==
    /\ P \in TrainPs
    /\ order = AscendingOrder
    /\ reward_function = None
    /\ firstT = None /\ lastT = None /\ firstR = None /\ lastR = None
    /\ expert_trajs \in TrainDatasets
    /\ sa_visit_count = None /\ P0 = None
    /\ transition_matrix = get_transition_matrix(P, order)
    /\ gamma \in Gammas
    /\ lr \in LearningRates
    /\ policy = None /\ occ_P0 = None /\ t_max = None /\ threshold = None
    /\ d_prev = None /\ t = 0 /\ diff = None /\ sweeps = 0
    /\ theta = None /\ mean_feature_count = None
    /\ irl_iteration_counter = 0 /\ no_irl_iterations = 0
    /\ pc = "start"

\* train(no_irl_iterations, ..) up to its while loop
TrainStart ==
    /\ pc = "start"
    /\ \E n \in 0 .. MaxIters : no_irl_iterations' = n
    /\ LET v == sa_visitations(expert_trajs)
       IN  /\ sa_visit_count' = v.sa_visit_count
           /\ P0' = v.P0
           /\ mean_feature_count' =
                 FeatDot(mean_s_visit_count(v.sa_visit_count, Len(expert_trajs)))
    /\ theta' = InitialTheta
    /\ irl_iteration_counter' = 0
    /\ pc' = "while"
    /\ UNCHANGED <<expert_trajs, envVars, configVars, occVars>>

\* the loop body up to the call of occupancy_measure(policy=policy, P0=P0): the
\* reward function built from theta is attached, the solver trains and hands back
\* its policy
IterationBegin ==
    /\ pc = "while"
    /\ irl_iteration_counter < no_irl_iterations
    /\ irl_iteration_counter' = irl_iteration_counter + 1
    /\ reward_function' = theta
    /\ \E pol \in SolverPolicies : EnterOccupancy(pol, P0, None, threshold_default)
    /\ pc' = "loop"
    /\ UNCHANGED <<P, order, firstT, lastT, firstR, lastR>>
    /\ UNCHANGED <<visitVars, configVars, theta, mean_feature_count, no_irl_iterations>>

TrainSweep == sweeps < MaxTrainSweeps /\ Sweep

\* occupancy_measure returns d; the gradient step on theta
ThetaUpdate ==
    /\ LoopLeft
    /\ theta' = UpdatedTheta(theta, lr, dl_dtheta(mean_feature_count, d_prev))
    /\ pc' = "while"
    /\ UNCHANGED <<envVars, visitVars, configVars, occVars>>
    /\ UNCHANGED <<mean_feature_count, irl_iteration_counter, no_irl_iterations>>

\* the while test fails: return theta
TrainReturn ==
    /\ pc = "while"
    /\ ~(irl_iteration_counter < no_irl_iterations)
    /\ pc' = "done"
    /\ UNCHANGED <<envVars, visitVars, configVars, occVars, trainVars>>

NextTrain == TrainStart \/ IterationBegin \/ TrainSweep \/ ThetaUpdate \/ TrainReturn

\* the states in which TrainStart, TrainSweep and ThetaUpdate can be taken; each of
\* these steps changes pc or sweeps, so these are ENABLED <<A>>_vars for them
CanStart == pc = "start"
CanSweep == pc = "loop" /\ Exceeds(diff, threshold) /\ sweeps < MaxTrainSweeps
CanUpdate == LoopLeft

\* train is one sequential call: whatever step it can take next, it takes. Weak
\* fairness of each step; for the three steps that compute tensors it is written
\* out, []<>~ENABLED <<A>>_vars \/ []<><<A>>_vars, with the enabling condition named
TrainFairness ==
    /\ WF_vars(IterationBegin)
    /\ WF_vars(TrainReturn)
    /\ ([]<>(~CanStart) \/ []<><<TrainStart>>_vars)
    /\ ([]<>(~CanSweep) \/ []<><<TrainSweep>>_vars)
    /\ ([]<>(~CanUpdate) \/ []<><<ThetaUpdate>>_vars)

SpecTrain == InitTrain /\ [][NextTrain]_vars /\ TrainFairness

GammaOneNeverConverges ==
    (pc = "loop" /\ theta # None /\ gamma = One) =>
        /\ Exceeds(diff, threshold)
        /\ TotalOf(d_prev) = RInt(sweeps)

\* with gamma < 1 the same runs of train return
StartsBelowOne == pc = "start" /\ RLess(gamma, One)
TrainTerminatesBelowOne == StartsBelowOne ~> (pc = "done")

\* C9: each iteration updates theta in place by theta := theta - lr * grad with
\* grad = -(mean_feature_count - feat_map^T d), on the non-absorbing dimensions only:
\* theta[s] becomes theta[s] + lr * (mean_feature_count[s] - d[s]), so it increases
\* exactly when the expert's mean visitation of s exceeds the policy's occupancy of
\* s; the absorbing dimension is no part of theta, and no other step of the loop
\* changes theta.
C9_ThetaUpdate ==
    [][/\ (pc = "loop" /\ pc' = "while") =>
            /\ DOMAIN theta' = RealStates
            /\ \A s \in RealStates :
                  /\ theta'[s] =
                        RAdd(theta[s], RMul(lr, RSub(mean_feature_count[s], d_prev[s])))
                  /\ RLess(theta[s], theta'[s]) <=> RLess(d_prev[s], mean_feature_count[s])
       /\ (pc # "start" /\ ~(pc = "loop" /\ pc' = "while")) => theta' = theta
      ]_vars

\* after two iterations one component of theta has gone up and another down
C9_Witness ==
    /\ pc = "done"
    /\ irl_iteration_counter = 2
    /\ \E s \in RealStates : RLess(InitialTheta[s], theta[s])
    /\ \E s \in RealStates : RLess(theta[s], InitialTheta[s])

====
